---- MODULE Spec2Model ----
(***************************************************************************)
(* The per-molecule mapping loop of nomad_ML_smiles_reader/reader.py and   *)
(* the section definitions of properties.py and schema.py it fills.        *)
(*                                                                         *)
(* Section objects live in a heap (a sequence, the index is the object's   *)
(* identity).  Every object holds its declared quantities (q), its         *)
(* declared sub-sections (subs), the plain Python attributes that were     *)
(* set on it under a name the section does not declare (attrs), and its    *)
(* m_parent.  Python's None is the empty tuple, a value v that is not None *)
(* is <<v>>.  Numbers are decimal magnitudes m * 10^e so that a unit       *)
(* conversion really changes the magnitude.                                *)
(***************************************************************************)
EXTENDS Integers, Sequences, FiniteSets, TLC

VARIABLES data, i, pc, heap, envs, files, error

vars == <<data, i, pc, heap, envs, files, error>>

\* The Jupyter analysis entry of nomad_analysis/schema.py (second part of
\* the module): the entry's section, the raw files of its upload, and what
\* the last call did.
VARIABLES entry, upload, last

nvars == <<entry, upload, last>>

\* Bounds of the model.
MaxMolecules == 2
MaxVal == 1
MaxLen == 2

None == <<>>
Some(v) == <<v>>

Values == (0 - MaxVal)..MaxVal

(***************************************************************************)
(* Units (pint, as used through nomad.units.ureg).                         *)
(***************************************************************************)
Dimension(u) ==
  CASE u \in {"eV", "joule"} -> "energy"
    [] u = "kcal/mol" -> "energy/substance"
    [] u \in {"THz", "Hz"} -> "1/time"
    [] u \in {"nm", "meter"} -> "length"
    [] u = "dimensionless" -> "1"
    [] u = "km/mol" -> "length/substance"
    [] u = "1/cm" -> "1/length"

\* The size of one unit in the SI unit of its dimension, as m * 10^e
\* (1 eV = 1.602 * 10^-19 J, kept to four digits).
ScaleOf(u) ==
  CASE u = "eV" -> [m |-> 1602, e |-> 0 - 22]
    [] u = "THz" -> [m |-> 1, e |-> 12]
    [] u = "nm" -> [m |-> 1, e |-> 0 - 9]
    [] u = "km/mol" -> [m |-> 1, e |-> 3]
    [] u = "1/cm" -> [m |-> 1, e |-> 2]
    [] u = "kcal/mol" -> [m |-> 4184, e |-> 0]
    [] OTHER -> [m |-> 1, e |-> 0]

Mag(v) == [m |-> v, e |-> 0]

\* zero has one representation
Norm(mag) == IF mag.m = 0 THEN Mag(0) ELSE mag

\* number * ureg.<unit>
Qty(v, unit) == [mag |-> Mag(v), unit |-> unit]

\* list * ureg(<unit>): an array quantity
QtyArray(list, unit) == [mag |-> [k \in 1..Len(list) |-> Mag(list[k])], unit |-> unit]

\* Quantity.to(unit).magnitude for a magnitude; the declared units are the
\* SI units of their dimension (scale 1) or the unit of the value itself.
ConvMag(mag, from, to) ==
  IF from = to THEN mag
  ELSE Norm([m |-> mag.m * ScaleOf(from).m,
             e |-> (mag.e + ScaleOf(from).e) - ScaleOf(to).e])

RECURSIVE Pow10(_)
Pow10(n) == IF n <= 0 THEN 1 ELSE 10 * Pow10(n - 1)

\* a - b for two magnitudes of the same unit
SubMag(a, b) ==
  IF b.m = 0 THEN a
  ELSE IF a.m = 0 THEN [m |-> 0 - b.m, e |-> b.e]
  ELSE LET e == IF a.e < b.e THEN a.e ELSE b.e
       IN Norm([m |-> a.m * Pow10(a.e - e) - b.m * Pow10(b.e - e), e |-> e])

(***************************************************************************)
(* The section definitions.                                                *)
(***************************************************************************)
ScalarPropertyClasses ==
  {"TotalEnergy", "ElectronicEnergy", "RepulsiveEnergy", "IonizationPotential",
   "HeatOfFormation", "Enthalpy", "Entropy", "HeatCapacity", "ZeroPointEnergy"}

Quantities(cls) ==
  CASE cls \in ScalarPropertyClasses -> {"value"}
    [] cls = "GapEnergy" -> {"value_homo", "value_lumo", "value"}
    [] cls = "MultipoleMoment" -> {"value", "value_dipole"}
    [] cls = "ElectronicLevels" ->
         {"type", "n_levels", "excited_state", "value", "value_wavelength",
          "oscillator_strength", "transition_type"}
    [] cls = "VibrationalModes" ->
         {"n_modes", "value", "frequency", "reduced_mass", "raman_intensity"}
    [] cls = "VibrationalSpectrum" -> {"n_frequencies", "frequency", "value"}
    [] cls = "Program" -> {"name", "version"}
    [] cls = "ModelMethod" -> {"method_name"}
    [] cls = "ModelSystem" -> {"smiles"}
    [] cls = "Outputs" -> {"model_system_ref"}
    [] OTHER -> {}

\* The unit a quantity declares ("" when it declares none).
DeclaredUnit(cls, field) ==
  CASE cls \in {"HeatOfFormation", "HeatCapacity"} -> "kcal/mol"
    [] cls \in ScalarPropertyClasses \ {"HeatOfFormation", "HeatCapacity"} -> "joule"
    [] cls = "GapEnergy" -> "joule"
    [] cls = "MultipoleMoment" -> "dimensionless"
    [] cls = "ElectronicLevels" /\ field = "value" -> "Hz"
    [] cls = "ElectronicLevels" /\ field = "value_wavelength" -> "meter"
    [] cls = "ElectronicLevels" /\ field = "oscillator_strength" -> "dimensionless"
    [] cls = "VibrationalModes" /\ field = "frequency" -> "Hz"
    [] cls = "VibrationalModes" /\ field \in {"reduced_mass", "raman_intensity"} ->
         "dimensionless"
    [] cls = "VibrationalSpectrum" /\ field = "frequency" -> "Hz"
    [] cls = "VibrationalSpectrum" /\ field = "value" -> "dimensionless"
    [] OTHER -> ""

\* shape=['<count field>']: the sibling field that holds the extent ("" for
\* a scalar or a literal shape).
ShapeField(cls, field) ==
  CASE cls = "ElectronicLevels" /\ field \in
         {"excited_state", "value", "value_wavelength", "oscillator_strength",
          "transition_type"} -> "n_levels"
    [] cls = "VibrationalModes" /\ field \in
         {"value", "frequency", "reduced_mass", "raman_intensity"} -> "n_modes"
    [] cls = "VibrationalSpectrum" /\ field \in {"frequency", "value"} -> "n_frequencies"
    [] OTHER -> ""

\* The sub-sections a section declares.
SubSections(cls) ==
  CASE cls = "Outputs" ->
         {"total_energy", "electronic_energy", "repulsive_energy",
          "ionization_potential", "gap_energy", "heat_of_formation",
          "multipole_moment"}
    [] cls = "Simulation" -> {"program", "model_system", "model_method", "outputs"}
    [] cls = "EntryArchive" -> {"data"}
    [] OTHER -> {}

\* The sections of properties.py below PhysicalProperty.
PropertyClasses ==
  ScalarPropertyClasses
  \cup {"GapEnergy", "MultipoleMoment", "ElectronicLevels", "VibrationalModes",
        "VibrationalSpectrum"}

BaseIsSection(cls) ==
  IF cls \in PropertyClasses \cup {"PhysicalProperty"} THEN "ArchiveSection" ELSE ""

\* class <cls>(<base>): the base a section is derived from ("" outside
\* properties.py)
Base(cls) ==
  CASE cls \in PropertyClasses -> "PhysicalProperty"
    [] cls = "PhysicalProperty" -> "ArchiveSection"
    [] OTHER -> ""

\* The names a class body assigns, in the order of its text.
ClassBody(cls) ==
  CASE cls = "PhysicalProperty" -> <<"value">>
    [] cls \in ScalarPropertyClasses -> <<"value">>
    [] cls = "GapEnergy" -> <<"value_homo", "value_lumo", "value">>
    [] cls = "MultipoleMoment" -> <<"value", "value_dipole">>
    [] cls = "ElectronicLevels" ->
         <<"type", "n_levels", "excited_state", "value", "value_wavelength",
           "oscillator_strength", "transition_type">>
    [] cls = "VibrationalModes" ->
         <<"n_modes", "value", "frequency", "reduced_mass", "raman_intensity">>
    [] cls = "VibrationalSpectrum" -> <<"n_frequencies", "frequency", "value">>
    [] OTHER -> <<>>

\* the classes above a class
RECURSIVE Ancestors(_)
Ancestors(cls) == IF Base(cls) = "" THEN {} ELSE {Base(cls)} \cup Ancestors(Base(cls))

\* m_package.__init_metainfo__(): the section definitions of the package
\* once it is loaded; no definition is refused
InitMetainfo == PropertyClasses \cup {"PhysicalProperty"}

(***************************************************************************)
(* Section objects.                                                        *)
(***************************************************************************)
\* cls(): a fresh section, every quantity unset, no parent
New(cls) ==
  [cls |-> cls,
   q |-> [f \in Quantities(cls) |-> None],
   subs |-> [s \in SubSections(cls) |-> <<>>],
   attrs |-> <<>>,
   parent |-> 0]

\* Quantity.__set__ with a plain value (no unit involved); None unsets
SetPlain(h, id, field, val) == [h EXCEPT ![id].q[field] = val]

\* Quantity.__set__ can take the pint quantity: the dimensions agree
CanStore(h, id, field, qty) ==
  Dimension(qty.unit) = Dimension(DeclaredUnit(h[id].cls, field))

\* Quantity.__set__ with a scalar pint quantity: stored as the magnitude in
\* the declared unit
SetQty(h, id, field, qty) ==
  [h EXCEPT ![id].q[field] =
     Some(ConvMag(qty.mag, qty.unit, DeclaredUnit(h[id].cls, field)))]

\* Quantity.__set__ with an array pint quantity
SetQtyArray(h, id, field, qty) ==
  [h EXCEPT ![id].q[field] =
     Some([k \in 1..Len(qty.mag) |->
             ConvMag(qty.mag[k], qty.unit, DeclaredUnit(h[id].cls, field))])]

\* section.<label> = sub (a single sub-section), or parent.<label>.append(sub)
AddSubSection(h, id, label, sub, repeats) ==
  [h EXCEPT ![id].subs[label] = IF repeats THEN Append(@, sub) ELSE <<sub>>,
            ![sub].parent = id]

\* setattr(section, label, sub): a declared sub-section is set, any other
\* name becomes a plain attribute of the Python object
SetAttr(h, id, label, sub) ==
  IF label \in SubSections(h[id].cls)
  THEN AddSubSection(h, id, label, sub, FALSE)
  ELSE [h EXCEPT ![id].attrs = (label :> sub) @@ @]

(***************************************************************************)
(* The raw molecule records.                                               *)
(***************************************************************************)
\* molecule_data.get(key)
Get(mol, key) == IF key \in DOMAIN mol THEN mol[key] ELSE None

\* f'MSVAMP_{property.m_def.name}'
Key(cls) == "MSVAMP_" \o cls

Opt(S) == {None} \cup {Some(v) : v \in S}

\* a JSON object holding the given <<key, value>> pairs; a pair whose value
\* is None stands for a key the object does not hold
Obj(pairs) ==
  LET present == {k \in 1..Len(pairs) : pairs[k][2] # None}
  IN [key \in {pairs[k][1] : k \in present} |->
        pairs[CHOOSE k \in present : pairs[k][1] = key][2]]

\* a list of n numbers 1, 2, ..., n
Numbers(n) == [k \in 1..n |-> k]

Lists == {Numbers(n) : n \in 0..MaxLen}

\* MSVAMP_ElectronicLevels texts, as sequences of characters
Line5 == <<"1", " ", "2", " ", "3", " ", "4", " ", "5">>
Line4 == <<"1", " ", "2", " ", "3", " ", "0", ".", "5">>
Line3 == <<"1", " ", "2", " ", "3">>
LevelTexts == {Line5, Line5 \o <<"\n">> \o Line5, Line4, Line3, Line5 \o <<"\n">>, <<>>}

ScalarKeys == {Key(cls) : cls \in ScalarPropertyClasses} \cup {"MSVAMP_TotalDipole"}

GapMolecules ==
  {Obj(<< <<"MSVAMP_HOMOEnergy", h>>, <<"MSVAMP_LUMOEnergy", l>> >>) :
     h \in Opt(Values), l \in Opt(Values)}

ScalarMolecules ==
  {(k :> Some(1)) : k \in ScalarKeys}
  \cup {("MSVAMP_TotalEnergy" :> Some(v)) : v \in Values}
  \cup {("MSVAMP_HeatOfFormation" :> Some(v)) : v \in Values}
  \cup {[k \in ScalarKeys |-> Some(1)]}
  \cup {("MSVAMP_TotalEnergy" :> Some(1)) @@ ("MSVAMP_Enthalpy" :> None)}
  \cup {Obj(<< <<"MSVAMP_TotalDipole", t>>, <<"MSVAMP_DipoleMoment", Some(<<1, 0, 0>>)>> >>) :
          t \in {None, Some(1)}}

LevelMolecules == {("MSVAMP_ElectronicLevels" :> Some(t)) : t \in LevelTexts}

ModeMolecules ==
  {Obj(<< <<"MSVAMP_VibrationalMode", v>>,
          <<"MSVAMP_VibrationalFrequency", f>>,
          <<"MSVAMP_VibrationalReducedMass", f>>,
          <<"MSVAMP_VibrationalRamanIntensity", f>> >>) :
     v \in Opt({[k \in 1..n |-> "mode"] : n \in 0..MaxLen}), f \in Opt(Lists)}

SpectrumMolecules ==
  {Obj(<< <<"MSVAMP_VibrationalIntensity_Strength", s>>,
          <<"MSVAMP_VibrationalIntensity_Frequency", f>> >>) :
     s \in {None, Some(Numbers(1))}, f \in {None, Some(Numbers(1))}}

SmilesMolecules == {("Smiles" :> Some("C")), ("Smiles" :> None)}

\* the molecules that fill the rest of a batch
Typical ==
  ("Smiles" :> Some("C")) @@ ("MSVAMP_TotalEnergy" :> Some(1))
  @@ ("MSVAMP_HOMOEnergy" :> Some(1)) @@ ("MSVAMP_LUMOEnergy" :> Some(0 - 1))

Common == {Typical, ("MSVAMP_ElectronicLevels" :> Some(Line3))}

Molecules ==
  GapMolecules \cup ScalarMolecules \cup LevelMolecules \cup ModeMolecules
  \cup SpectrumMolecules \cup SmilesMolecules \cup Common

\* the input files: up to MaxMolecules molecule records, one of them any of
\* Molecules and the others from Common
Batches ==
  {<<>>} \cup
  UNION {{[k \in 1..n |-> IF k = p THEN m ELSE c[k]] :
            p \in 1..n, m \in Molecules, c \in [1..n -> Common]} :
         n \in 1..MaxMolecules}

(***************************************************************************)
(* The loop of reader.py, one action per block of its body.                *)
(***************************************************************************)
NoError == [kind |-> "", at |-> ""]

Init ==
  /\ data \in Batches
  /\ i = 0
  /\ pc = "loop"
  /\ heap = <<>>
  /\ envs = <<>>
  /\ files = <<>>
  /\ error = NoError
  /\ entry = None
  /\ upload = <<>>
  /\ last = None

\* the molecule the loop body is working on, and the names bound for it
mol == data[i + 1]
env == envs[Len(envs)]

SimulationOnce(es, fresh) == IF es = <<>> THEN fresh ELSE es[1].simulation

\* simulation = Simulation(...): the object the name is bound to
SimulationFor(es, fresh) == fresh

\* ModelSystem.resolve_chemical_ids: no smiles_to_<label> function exists in
\* the module, the lookup fails and every <label>_id becomes ''
ResolveChemicalIds(h, id) ==
  [h EXCEPT ![id].attrs =
     [a \in {"selfies_id", "deepsmiles_id", "canonical_id", "inchi_id"} |-> ""] @@ @]

OutputsOnce(es, fresh) == IF es = <<>> THEN fresh ELSE es[1].outputs

\* outputs = Outputs(): a new section in every pass of the loop
OutputsFor(es, fresh) == fresh

\* lines 124-143: the archive, the simulation, the model system, the outputs
\* (ModelMethod declares method_name, the name it is given is no quantity of
\* it and is kept as a plain attribute)
BeginMolecule ==
  /\ pc = "loop"
  /\ i < Len(data)
  /\ LET base == Len(heap)
         archive == base + 1
         program == base + 2
         method == base + 3
         fresh == base + 4
         system == base + 5
         outputs == OutputsFor(envs, base + 6)
         h0 == heap \o <<New("EntryArchive"), New("Program"), New("ModelMethod"),
                         New("Simulation"), New("ModelSystem"), New("Outputs")>>
         h1 == SetPlain(SetPlain(h0, program, "name", Some("BIOVIA Materials Studio")),
                        program, "version", Some("2022"))
         h2 == [h1 EXCEPT ![method].attrs =
                  ("name" :> "Semi-Empirical Molecular Orbital Package - VAMP") @@ @]
         h3 == AddSubSection(AddSubSection(h2, fresh, "program", program, FALSE),
                             fresh, "model_method", method, FALSE)
         simulation == SimulationFor(envs, fresh)
         h4 == AddSubSection(h3, archive, "data", simulation, FALSE)
         smiles == IF "Smiles" \in DOMAIN mol THEN mol["Smiles"] ELSE Some("")
         h5 == SetPlain(h4, system, "smiles", smiles)
         h6 == AddSubSection(h5, simulation, "model_system", system, TRUE)
         h7 == ResolveChemicalIds(h6, system)
     IN /\ heap' = h7
        /\ envs' = Append(envs,
             [archive |-> archive, simulation |-> simulation, model_system |-> system,
              outputs |-> outputs,
              energy_map |-> IF envs = <<>> THEN <<>> ELSE env.energy_map,
              capacity_map |-> IF envs = <<>> THEN <<>> ELSE env.capacity_map])
  /\ pc' = "energetics"
  /\ UNCHANGED <<data, i, files, error, nvars>>

EnergyLabels ==
  <<"total_energy", "electronic_energy", "repulsive_energy", "ionization_potential",
    "enthalpy", "entropy", "zero_point_energy">>

EnergyClasses ==
  <<"TotalEnergy", "ElectronicEnergy", "RepulsiveEnergy", "IonizationPotential",
    "Enthalpy", "Entropy", "ZeroPointEnergy">>

\* the dict literal of a property map: a fresh section per label
NewPropertyMap(old, labels, base) == [l \in {labels[k] : k \in 1..Len(labels)} |->
                                        base + (CHOOSE k \in 1..Len(labels) : labels[k] = l)]

EnergyMapOnce(old, base) ==
  IF old = <<>> THEN NewPropertyMap(old, EnergyLabels, base) ELSE old

\* energy_map = {...}
NewEnergyMap(old, base) == NewPropertyMap(old, EnergyLabels, base)

EnergyDeclaredUnit == "joule"

\* the unit the reader gives the raw energies
EnergySourceUnit == "eV"

\* for label, property in <map>.items(): the value is set and the section
\* attached when the raw key holds a value
RECURSIVE ParseProperties(_, _, _, _, _, _)
ParseProperties(h, m, outputs, pmap, labels, unit) ==
  IF labels = <<>> THEN h
  ELSE LET property == pmap[Head(labels)]
           raw == Get(m, Key(h[property].cls))
           h1 == IF raw # None
                 THEN SetAttr(SetQty(h, property, "value", Qty(raw[1], unit)),
                              outputs, Head(labels), property)
                 ELSE h
       IN ParseProperties(h1, m, outputs, pmap, Tail(labels), unit)

\* lines 145-158: energetics parsing
ParseEnergetics ==
  /\ pc = "energetics"
  /\ LET energy_map == NewEnergyMap(env.energy_map, Len(heap))
         h0 == heap \o [k \in 1..Len(EnergyClasses) |-> New(EnergyClasses[k])]
     IN /\ heap' = ParseProperties(h0, mol, env.outputs, energy_map, EnergyLabels,
                                   EnergySourceUnit)
        /\ envs' = [envs EXCEPT ![Len(envs)].energy_map = energy_map]
  /\ pc' = "gap"
  /\ UNCHANGED <<data, i, files, error, nvars>>

\* bool(quantity) of a stored value read back, bool(None) is False
Truthy(stored) == stored # None /\ stored[1].m # 0

GapIsNotNegative(value) == value.m >= 0

\* value.magnitude > 0.0
GapIsPositive(value) == value.m > 0

\* GapEnergy.extract_gap
ExtractGap(h, id) ==
  IF Truthy(h[id].q["value_homo"]) /\ Truthy(h[id].q["value_lumo"])
  THEN LET value == SubMag(h[id].q["value_homo"][1], h[id].q["value_lumo"][1])
       IN IF GapIsPositive(value)
          THEN SetQty(h, id, "value", [mag |-> value, unit |-> DeclaredUnit("GapEnergy", "value")])
          ELSE h
  ELSE h

GapKeysBothPresent(homo, lumo) == homo # None /\ lumo # None

\* if homo is not None or lumo is not None
GapKeysPresent(homo, lumo) == homo # None \/ lumo # None

\* <raw> * unit if <raw> is not None else None, assigned to a scalar quantity
SetOptionalQty(h, id, field, raw, unit) ==
  IF raw # None THEN SetQty(h, id, field, Qty(raw[1], unit)) ELSE SetPlain(h, id, field, None)

\* the same for a list
SetOptionalQtyArray(h, id, field, raw, unit) ==
  IF raw # None THEN SetQtyArray(h, id, field, QtyArray(raw[1], unit))
  ELSE SetPlain(h, id, field, None)

\* lines 160-167: gap energy parsing
ParseGap ==
  /\ pc = "gap"
  /\ LET homo == Get(mol, "MSVAMP_HOMOEnergy")
         lumo == Get(mol, "MSVAMP_LUMOEnergy")
         gap_energy == Len(heap) + 1
         h0 == Append(heap, New("GapEnergy"))
         h1 == SetOptionalQty(h0, gap_energy, "value_homo", homo, EnergySourceUnit)
         h2 == SetOptionalQty(h1, gap_energy, "value_lumo", lumo, EnergySourceUnit)
         h3 == ExtractGap(h2, gap_energy)
     IN heap' = IF GapKeysPresent(homo, lumo)
                THEN SetAttr(h3, env.outputs, "gap_energy", gap_energy)
                ELSE heap
  /\ pc' = "capacities"
  /\ UNCHANGED <<data, i, envs, files, error, nvars>>

CapacityLabels == <<"heat_of_formation", "heat_capacity">>

CapacityClasses == <<"HeatOfFormation", "HeatCapacity">>

\* capacity_map = {...}
NewCapacityMap(old, base) == NewPropertyMap(old, CapacityLabels, base)

\* lines 169-177: heat capacities parsing
ParseCapacities ==
  /\ pc = "capacities"
  /\ LET capacity_map == NewCapacityMap(env.capacity_map, Len(heap))
         h0 == heap \o [k \in 1..Len(CapacityClasses) |-> New(CapacityClasses[k])]
     IN /\ heap' = ParseProperties(h0, mol, env.outputs, capacity_map, CapacityLabels,
                                   "kcal/mol")
        /\ envs' = [envs EXCEPT ![Len(envs)].capacity_map = capacity_map]
  /\ pc' = "multipoles"
  /\ UNCHANGED <<data, i, files, error, nvars>>

\* lines 179-197: multipoles parsing
ParseMultipoles ==
  /\ pc = "multipoles"
  /\ LET total_dipole == Get(mol, "MSVAMP_TotalDipole")
         multipole_moment == Len(heap) + 1
         h0 == Append(heap, New("MultipoleMoment"))
         h1 == SetQty(h0, multipole_moment, "value", Qty(total_dipole[1], "dimensionless"))
         h2 == SetOptionalQtyArray(h1, multipole_moment, "value_dipole",
                                   Get(mol, "MSVAMP_DipoleMoment"), "dimensionless")
     IN heap' = IF total_dipole # None
                THEN SetAttr(h2, env.outputs, "multipole_moment", multipole_moment)
                ELSE heap
  /\ pc' = "levels"
  /\ UNCHANGED <<data, i, envs, files, error, nvars>>

(***************************************************************************)
(* Text parsing: str.split, int, float.                                    *)
(***************************************************************************)
\* text.split(sep)
RECURSIVE SplitOn(_, _)
SplitOn(text, sep) ==
  IF \A k \in 1..Len(text) : text[k] # sep THEN <<text>>
  ELSE LET k == CHOOSE j \in 1..Len(text) :
                  text[j] = sep /\ \A l \in 1..(j - 1) : text[l] # sep
       IN <<SubSeq(text, 1, k - 1)>> \o SplitOn(SubSeq(text, k + 1, Len(text)), sep)

IsSpace(c) == c \in {" ", "\n", "\t"}

\* text.split(): the maximal runs of characters that are not whitespace
RECURSIVE SplitWhitespace(_)
SplitWhitespace(text) ==
  IF text = <<>> THEN <<>>
  ELSE IF IsSpace(Head(text)) THEN SplitWhitespace(Tail(text))
  ELSE LET n == CHOOSE j \in 1..Len(text) :
                  /\ \A l \in 1..j : ~IsSpace(text[l])
                  /\ (j = Len(text) \/ IsSpace(text[j + 1]))
       IN <<SubSeq(text, 1, n)>> \o SplitWhitespace(SubSeq(text, n + 1, Len(text)))

Digits == <<"0", "1", "2", "3", "4", "5", "6", "7", "8", "9">>

IsDigit(c) == \E d \in 1..Len(Digits) : Digits[d] = c

DigitValue(c) == (CHOOSE d \in 1..Len(Digits) : Digits[d] = c) - 1

\* int(token) succeeds: digits only
IsInt(token) == token # <<>> /\ \A k \in 1..Len(token) : IsDigit(token[k])

\* int(token)
RECURSIVE ParseInt(_)
ParseInt(token) ==
  IF token = <<>> THEN 0
  ELSE 10 * ParseInt(SubSeq(token, 1, Len(token) - 1)) + DigitValue(token[Len(token)])

\* the digits of a decimal token, its point taken out
Unpointed(token) == SelectSeq(token, LAMBDA c : c # ".")

\* float(token) succeeds: digits with at most one decimal point
IsFloat(token) ==
  /\ IsInt(Unpointed(token))
  /\ Len(token) - Len(Unpointed(token)) <= 1

\* float(token), as a magnitude m * 10^e
ParseFloat(token) ==
  IF \A k \in 1..Len(token) : token[k] # "." THEN Mag(ParseInt(token))
  ELSE LET p == CHOOSE k \in 1..Len(token) : token[k] = "."
       IN [m |-> ParseInt(Unpointed(token)), e |-> 0 - (Len(token) - p)]

\* [conv(level[index]) for level in levels]: "" when every element converts,
\* else the exception of the first level that does not; index 0 stands for
\* level[-1]
ColumnError(levels, index, isFloat) ==
  LET bad(level) ==
        LET at == IF index = 0 THEN Len(level) ELSE index
        IN IF Len(level) < index \/ Len(level) = 0 THEN "IndexError"
           ELSE IF isFloat /\ ~IsFloat(level[at]) THEN "ValueError"
           ELSE IF ~isFloat /\ ~IsInt(level[at]) THEN "ValueError"
           ELSE ""
  IN IF \A k \in 1..Len(levels) : bad(levels[k]) = "" THEN ""
     ELSE bad(levels[CHOOSE k \in 1..Len(levels) :
                       bad(levels[k]) # "" /\ \A l \in 1..(k - 1) : bad(levels[l]) = ""])

IntColumn(levels, index) ==
  [k \in 1..Len(levels) |->
     ParseInt(levels[k][IF index = 0 THEN Len(levels[k]) ELSE index])]

FloatColumn(levels, index) == [k \in 1..Len(levels) |-> ParseFloat(levels[k][index])]

\* an array of magnitudes * ureg(<unit>)
MagArray(mags, unit) == [mag |-> mags, unit |-> unit]

\* the outcome of a block: the heap it leaves and the exception it raised
\* ("" when it ran to its end)
Outcome(h, kind) == [heap |-> h, kind |-> kind]

\* a block's outcome becomes the next state: on an exception the script stops
Continue(outcome, at, next) ==
  /\ heap' = outcome.heap
  /\ IF outcome.kind = ""
     THEN pc' = next /\ error' = error
     ELSE pc' = "raised" /\ error' = [kind |-> outcome.kind, at |-> at]

LevelsWithoutCount(h, section, n) == SetPlain(h, section, "type", Some("UV-VIS"))

\* ElectronicLevels(type='UV-VIS', n_levels=len(levels))
NewElectronicLevels(h, section, n) ==
  SetPlain(SetPlain(h, section, "type", Some("UV-VIS")), section, "n_levels", Some(n))

\* lines 201-213: the electronic levels section of a text
ElectronicLevelsBlock(h, outputs, text) ==
  LET lines == SplitOn(text, "\n")
      levels == [k \in 1..Len(lines) |-> SplitWhitespace(lines[k])]
      section == Len(h) + 1
      h0 == Append(h, New("ElectronicLevels"))
      h1 == NewElectronicLevels(h0, section, Len(levels))
      parse == IF ColumnError(levels, 1, FALSE) # "" THEN ColumnError(levels, 1, FALSE)
               ELSE IF ColumnError(levels, 2, TRUE) # "" THEN ColumnError(levels, 2, TRUE)
               ELSE IF ColumnError(levels, 3, TRUE) # "" THEN ColumnError(levels, 3, TRUE)
               ELSE IF ColumnError(levels, 4, TRUE) # "" THEN ColumnError(levels, 4, TRUE)
               ELSE ColumnError(levels, 0, FALSE)
      value == MagArray(FloatColumn(levels, 2), "eV")
      value_wavelength == MagArray(FloatColumn(levels, 3), "nm")
      oscillator_strength == MagArray(FloatColumn(levels, 4), "dimensionless")
      h2 == SetPlain(h1, section, "excited_state", Some(IntColumn(levels, 1)))
      h3 == SetQtyArray(h2, section, "value", value)
      h4 == SetQtyArray(h3, section, "value_wavelength", value_wavelength)
      h5 == SetQtyArray(h4, section, "oscillator_strength", oscillator_strength)
      h6 == SetPlain(h5, section, "transition_type", Some(IntColumn(levels, 0)))
  IN IF parse # "" THEN Outcome(h1, parse)
     ELSE IF ~CanStore(h2, section, "value", value)
     THEN Outcome(h2, "DimensionalityError")
     ELSE IF ~CanStore(h3, section, "value_wavelength", value_wavelength)
     THEN Outcome(h3, "DimensionalityError")
     ELSE IF ~CanStore(h4, section, "oscillator_strength", oscillator_strength)
     THEN Outcome(h4, "DimensionalityError")
     ELSE Outcome(SetAttr(h6, outputs, "electronic_levels", section), "")

\* lines 199-213: electronic levels parsing
ParseElectronicLevels ==
  /\ pc = "levels"
  /\ LET electronic_levels == Get(mol, "MSVAMP_ElectronicLevels")
     IN Continue(IF electronic_levels # None
                 THEN ElectronicLevelsBlock(heap, env.outputs, electronic_levels[1])
                 ELSE Outcome(heap, ""),
                 "levels", "modes")
  /\ UNCHANGED <<data, i, envs, files, nvars>>

\* lines 217-232: the vibrational modes section
VibrationalModesBlock(h, outputs, m, vibrational_modes) ==
  LET section == Len(h) + 1
      h0 == Append(h, New("VibrationalModes"))
      h1 == SetPlain(h0, section, "n_modes", Some(Len(vibrational_modes)))
      h2 == SetPlain(h1, section, "value", Some(vibrational_modes))
      h3 == SetOptionalQtyArray(h2, section, "frequency",
                                Get(m, "MSVAMP_VibrationalFrequency"), "THz")
      h4 == SetOptionalQtyArray(h3, section, "reduced_mass",
                                Get(m, "MSVAMP_VibrationalReducedMass"), "dimensionless")
      h5 == SetOptionalQtyArray(h4, section, "raman_intensity",
                                Get(m, "MSVAMP_VibrationalRamanIntensity"), "dimensionless")
  IN Outcome(SetAttr(h5, outputs, "vibrational_modes", section), "")

\* lines 215-232: vibrational modes parsing
ParseVibrationalModes ==
  /\ pc = "modes"
  /\ LET vibrational_modes == Get(mol, "MSVAMP_VibrationalMode")
     IN Continue(IF vibrational_modes # None
                 THEN VibrationalModesBlock(heap, env.outputs, mol, vibrational_modes[1])
                 ELSE Outcome(heap, ""),
                 "modes", "spectrum")
  /\ UNCHANGED <<data, i, envs, files, nvars>>

\* (ureg.speed_of_light * wavenumber).to('Hz') for wavenumbers in 1/cm:
\* c = 299792458 m/s and 1/cm = 100 1/m
WavenumberToHz(list) ==
  [mag |-> [k \in 1..Len(list) |-> [m |-> 299792458 * list[k], e |-> 2]], unit |-> "Hz"]

\* lines 238-246: the vibrational spectrum section
VibrationalSpectrumBlock(h, outputs, m, intensities) ==
  LET section == Len(h) + 1
      h0 == Append(h, New("VibrationalSpectrum"))
      h1 == SetPlain(h0, section, "n_frequencies", Some(Len(intensities)))
      value == QtyArray(intensities, "km/mol")
      h2 == SetQtyArray(h1, section, "value", value)
      wavenumber == Get(m, "MSVAMP_VibrationalIntensity_Frequency")
      frequency == WavenumberToHz(wavenumber[1])
      h3 == SetQtyArray(h2, section, "frequency", frequency)
  IN IF ~CanStore(h1, section, "value", value) THEN Outcome(h1, "DimensionalityError")
     ELSE IF wavenumber = None THEN Outcome(h2, "TypeError")
     ELSE IF ~CanStore(h2, section, "frequency", frequency)
     THEN Outcome(h2, "DimensionalityError")
     ELSE Outcome(SetAttr(h3, outputs, "vibrational_spectrum", section), "")

\* lines 234-246: vibrational spectrum parsing
ParseVibrationalSpectrum ==
  /\ pc = "spectrum"
  /\ LET intensities == Get(mol, "MSVAMP_VibrationalIntensity_Strength")
     IN Continue(IF intensities # None
                 THEN VibrationalSpectrumBlock(heap, env.outputs, mol, intensities[1])
                 ELSE Outcome(heap, ""),
                 "spectrum", "normalize")
  /\ UNCHANGED <<data, i, envs, files, nvars>>

LastModelSystem(h, id) ==
  IF h[id].parent # 0 /\ Len(h[h[id].parent].subs["model_system"]) >= 1
  THEN LET model_systems == h[h[id].parent].subs["model_system"]
       IN Some(model_systems[Len(model_systems)])
  ELSE None

\* Outputs.set_model_system_ref
SetModelSystemRef(h, id) ==
  IF h[id].parent # 0 /\ Len(h[h[id].parent].subs["model_system"]) = 1
  THEN LET model_systems == h[h[id].parent].subs["model_system"]
       IN Some(model_systems[Len(model_systems)])
  ELSE None

\* Outputs.normalize
NormalizeOutputs(h, id) ==
  IF h[id].q["model_system_ref"] = None
  THEN SetPlain(h, id, "model_system_ref", SetModelSystemRef(h, id))
  ELSE h

\* lines 248-249: the outputs are appended to the simulation and normalized
Normalize ==
  /\ pc = "normalize"
  /\ heap' = NormalizeOutputs(
               AddSubSection(heap, env.simulation, "outputs", env.outputs, TRUE),
               env.outputs)
  /\ pc' = "write"
  /\ UNCHANGED <<data, i, envs, files, error, nvars>>

\* the reference to a section as m_to_dict writes it: the path of the
\* section below its root, /data/model_system/<index>
ReferencePath(h, target) ==
  LET siblings == h[h[target].parent].subs["model_system"]
  IN <<"data", "model_system",
       (CHOOSE k \in 1..Len(siblings) : siblings[k] = target) - 1>>

\* section.m_to_dict(): the quantities that are set and the sub-sections,
\* declared ones only
RECURSIVE ToDict(_, _)
ToDict(h, id) ==
  [q |-> [f \in {g \in DOMAIN h[id].q : h[id].q[g] # None} |->
            IF h[id].cls = "Outputs" /\ f = "model_system_ref"
            THEN ReferencePath(h, h[id].q[f][1])
            ELSE h[id].q[f][1]],
   subs |-> [l \in {s \in DOMAIN h[id].subs : h[id].subs[s] # <<>>} |->
               [k \in 1..Len(h[id].subs[l]) |-> ToDict(h, h[id].subs[l][k])]]]

SchemaReference ==
  "../upload/raw/original_data_NOMADschema.archive.yaml#/definitions/section_definitions/Simulation"

\* lines 113-116: '01', '02', ..., '09', '10', ... as a sequence of digits
RECURSIVE DigitsOf(_)
DigitsOf(n) == IF n < 10 THEN <<Digits[n + 1]>> ELSE Append(DigitsOf(n \div 10), Digits[(n % 10) + 1])

IString(index) == IF index < 9 THEN <<"0">> \o DigitsOf(index + 1) ELSE DigitsOf(index + 1)

\* lines 252-260: the archive is serialized, its schema reference replaced,
\* and written to the molecule's file; the loop goes on
WriteArchive ==
  /\ pc = "write"
  /\ files' = (IString(i) :> [data |-> ToDict(heap, env.archive), m_def |-> SchemaReference])
              @@ files
  /\ i' = i + 1
  /\ pc' = "loop"
  /\ UNCHANGED <<data, heap, envs, error, nvars>>

Next ==
  \/ BeginMolecule
  \/ ParseEnergetics
  \/ ParseGap
  \/ ParseCapacities
  \/ ParseMultipoles
  \/ ParseElectronicLevels
  \/ ParseVibrationalModes
  \/ ParseVibrationalSpectrum
  \/ Normalize
  \/ WriteArchive

Spec == Init /\ [][Next]_vars

(***************************************************************************)
(* Where a molecule's mapping stands.                                      *)
(***************************************************************************)
Blocks ==
  <<"energetics", "gap", "capacities", "multipoles", "levels", "modes", "spectrum",
    "normalize", "write">>

Rank(block) == CHOOSE k \in 1..Len(Blocks) : Blocks[k] = block

\* molecule k (counted from 1) has run the block to its end
Done(k, block) ==
  /\ k \in 1..Len(envs)
  /\ \/ k <= i
     \/ pc \in {Blocks[n] : n \in 1..Len(Blocks)} /\ Rank(block) < Rank(pc)
     \/ pc = "raised" /\ Rank(block) < Rank(error.at)

Range(f) == {f[x] : x \in DOMAIN f}

\* the sections a section holds: its sub-sections and, for the outputs, the
\* sections set on it as plain attributes
Links(h, id) ==
  UNION {Range(h[id].subs[l]) : l \in DOMAIN h[id].subs}
  \cup (IF h[id].cls = "Outputs" THEN Range(h[id].attrs) ELSE {})

RECURSIVE Reach(_, _)
Reach(h, S) ==
  LET T == S \cup UNION {Links(h, id) : id \in S}
  IN IF T = S THEN S ELSE Reach(h, T)

\* the section objects of molecule k's record
Owned(k) == Reach(heap, {envs[k].archive, envs[k].outputs})

\* the section attached to molecule k's outputs under a label, as a
\* declared sub-section (a sequence of at most one object)
SubSectionOf(k, label) ==
  IF label \in DOMAIN heap[envs[k].outputs].subs
  THEN heap[envs[k].outputs].subs[label]
  ELSE <<>>

\* the section bound to the label on molecule k's outputs, sub-section or
\* plain attribute
AttachedTo(k, label) ==
  IF SubSectionOf(k, label) # <<>> THEN SubSectionOf(k, label)
  ELSE IF label \in DOMAIN heap[envs[k].outputs].attrs
  THEN <<heap[envs[k].outputs].attrs[label]>>
  ELSE <<>>

RawHomo(k) == Get(data[k], "MSVAMP_HOMOEnergy")
RawLumo(k) == Get(data[k], "MSVAMP_LUMOEnergy")

\* a raw number of electron volts in joule
InJoule(v) == Norm([m |-> v * 1602, e |-> 0 - 22])

\* the file written for molecule k
FileOf(k) == files[IString(k - 1)]

(***************************************************************************)
(* The gap-energy rule.                                                    *)
(***************************************************************************)
GapSections == {id \in DOMAIN heap : heap[id].cls = "GapEnergy"}

\* C1: in every gap-energy section that holds both value_homo and
\* value_lumo with value_homo - value_lumo > 0, value is present after
\* extract_gap and equals value_homo - value_lumo.
C1_GapSetWhenPositive ==
  \A id \in GapSections :
    LET s == heap[id].q
    IN (/\ s["value_homo"] # None
        /\ s["value_lumo"] # None
        /\ SubMag(s["value_homo"][1], s["value_lumo"][1]).m > 0)
       => s["value"] = Some(SubMag(s["value_homo"][1], s["value_lumo"][1]))

C3_GapWithOneOperand ==
  /\ error.at # "gap"
  /\ \A k \in 1..Len(envs) :
       (Done(k, "gap") /\ (RawHomo(k) = None) # (RawLumo(k) = None)) =>
         LET gap == SubSectionOf(k, "gap_energy")
         IN /\ gap # <<>>
            /\ heap[gap[1]].parent = envs[k].outputs
            /\ heap[gap[1]].q["value"] = None
            /\ heap[gap[1]].q["value_homo"] =
                 (IF RawHomo(k) = None THEN None ELSE Some(InJoule(RawHomo(k)[1])))
            /\ heap[gap[1]].q["value_lumo"] =
                 (IF RawLumo(k) = None THEN None ELSE Some(InJoule(RawLumo(k)[1])))

\* a molecule with HOMO alone has been mapped and its gap section attached
C3_Witness ==
  \E k \in 1..Len(envs) :
    /\ Done(k, "gap")
    /\ RawHomo(k) # None
    /\ RawLumo(k) = None
    /\ SubSectionOf(k, "gap_energy") # <<>>
    /\ heap[SubSectionOf(k, "gap_energy")[1]].q["value_homo"] # None

(***************************************************************************)
(* Errors, shapes and units.                                               *)
(***************************************************************************)
\* C4: whatever optional keys are absent or malformed in a molecule, the
\* reader raises nothing: it produces that molecule's record and goes on
\* with the remaining molecules.
C4_BatchNeverAborts == pc # "raised"

ArrayLabels == {"electronic_levels", "vibrational_modes", "vibrational_spectrum"}

\* C5: in every array section attached to a molecule's outputs, each
\* present array field whose shape names a count field has exactly that
\* many elements, and the count field is present and not negative.
C5_ArrayLengthsMatchCounts ==
  \A k \in 1..Len(envs) : \A label \in ArrayLabels :
    AttachedTo(k, label) # <<>> =>
      LET s == heap[AttachedTo(k, label)[1]]
      IN \A f \in DOMAIN s.q :
           (ShapeField(s.cls, f) # "" /\ s.q[f] # None) =>
             /\ s.q[ShapeField(s.cls, f)] # None
             /\ s.q[ShapeField(s.cls, f)][1] >= 0
             /\ Len(s.q[f][1]) = s.q[ShapeField(s.cls, f)][1]

\* C6: every value the reader stores into a unit-bearing field has the
\* dimension of the unit the field declares, so that no store is refused
\* for its dimension.
C6_StoredDimensionsMatch == error.kind # "DimensionalityError"

\* the label under which the reader attaches the section of a class
ScalarLabels ==
  [cls \in ScalarPropertyClasses |->
     IF \E n \in 1..Len(EnergyClasses) : EnergyClasses[n] = cls
     THEN EnergyLabels[CHOOSE n \in 1..Len(EnergyClasses) : EnergyClasses[n] = cls]
     ELSE CapacityLabels[CHOOSE n \in 1..Len(CapacityClasses) : CapacityClasses[n] = cls]]

EnergyClassSet == {EnergyClasses[n] : n \in 1..Len(EnergyClasses)}

C8_SubSectionIffKeyPresent ==
  \A k \in 1..Len(envs) :
    Done(k, "multipoles") =>
      /\ \A cls \in ScalarPropertyClasses :
           (SubSectionOf(k, ScalarLabels[cls]) # <<>>) <=> (Get(data[k], Key(cls)) # None)
      /\ (SubSectionOf(k, "multipole_moment") # <<>>) <=>
           (Get(data[k], "MSVAMP_TotalDipole") # None)

(***************************************************************************)
(* Records of one batch.                                                   *)
(***************************************************************************)
\* C9: two molecules of a batch that hold the same raw record are written
\* as the same archive, field for field.
C9_SameRawSameRecord ==
  \A j, k \in 1..i : data[j] = data[k] => FileOf(j) = FileOf(k)

\* two molecules with the same raw record, a total energy and a gap among
\* it, have been written
C9_Witness ==
  \E j, k \in 1..i :
    /\ j # k
    /\ data[j] = data[k]
    /\ "total_energy" \in DOMAIN FileOf(k).data.subs["data"][1].subs["outputs"][1].subs
    /\ "gap_energy" \in DOMAIN FileOf(k).data.subs["data"][1].subs["outputs"][1].subs

\* C10: no section object belongs to the records of two molecules, the
\* model system an outputs section refers to is the one of its own record,
\* and the record written for a molecule is not changed by the mapping of
\* the molecules after it.
C10_NoSharedSections ==
  /\ \A j, k \in 1..Len(envs) : j # k => Owned(j) \cap Owned(k) = {}
  /\ \A k \in 1..Len(envs) :
       heap[envs[k].outputs].q["model_system_ref"] \in {None, Some(envs[k].model_system)}
  /\ \A k \in 1..i : FileOf(k).data = ToDict(heap, envs[k].archive)

\* two molecules that both hold a total energy have been written
C10_Witness ==
  /\ i >= 2
  /\ \A k \in 1..2 :
       /\ SubSectionOf(k, "total_energy") # <<>>
       /\ heap[envs[k].outputs].q["model_system_ref"] = Some(envs[k].model_system)

(***************************************************************************)
(* The life of a record.                                                   *)
(***************************************************************************)
\* the record of the molecule the loop is at
Current == Len(envs)

\* a step leaves the quantities of every section of molecule k's record alone
FieldsKept(k) == \A id \in Owned(k) : heap'[id].q = heap[id].q

\* a step leaves every section of molecule k's record alone altogether
RecordKept(k) == \A id \in Owned(k) : heap'[id] = heap[id]

\* C11, as stated: once the mapping pass over a molecule has run its last
\* block, no step writes a field of that molecule's record any more (the gap
\* rule, which ran inside the pass, was the last rule to write one).
C11_NoWriteAfterMapping ==
  [][(pc \in {"normalize", "write"}) => FieldsKept(Current)]_vars

\* C11, amended: a gap section is never written after the block that made it
\* and applied extract_gap to it; after the mapping pass the one field still
\* written is model_system_ref of the outputs, set by Outputs.normalize to the
\* molecule's model system; serializing writes nothing; and no section of a
\* record whose file has been written is written again.
C11_FrozenOnceSerialized ==
  [][/\ \A id \in GapSections : heap'[id] = heap[id]
     /\ pc = "normalize" =>
          \A id \in Owned(Current) :
            heap'[id].q = IF id = env.outputs
                          THEN [heap[id].q EXCEPT
                                  !["model_system_ref"] = Some(env.model_system)]
                          ELSE heap[id].q
     /\ pc = "write" => RecordKept(Current)
     /\ \A k \in 1..i : RecordKept(k)]_vars

\* C11 witness: the first record is in its file with its gap and its
\* reference to the model system set, and the second record has had its
\* gap rule applied and is about to be serialized.
C11_Witness ==
  /\ i = 1 /\ pc = "write" /\ Current = 2
  /\ IString(0) \in DOMAIN files
  /\ heap[envs[1].outputs].q["model_system_ref"] = Some(envs[1].model_system)
  /\ \E g \in GapSections \cap Owned(1) : heap[g].q["value"] # None
  /\ \E g \in GapSections \cap Owned(2) : heap[g].q["value"] # None

(***************************************************************************)
(* The declarations of the schema.                                         *)
(***************************************************************************)
\* the names of a class body that a class above it assigns as well
Redeclared(cls) ==
  {ClassBody(cls)[n] : n \in 1..Len(ClassBody(cls))}
  \cap UNION {{ClassBody(a)[n] : n \in 1..Len(ClassBody(a))} : a \in Ancestors(cls)}

\* C12: no section type of the loaded schema redeclares a field name of one
\* of its ancestors, so that no record of such a type is ever made while the
\* molecules are mapped.
C12_NoFieldRedeclared ==
  \A id \in DOMAIN heap :
    heap[id].cls \in InitMetainfo => Redeclared(heap[id].cls) = {}

\* C12, amended: every property type of the loaded schema redeclares exactly
\* one inherited name, the placeholder value of PhysicalProperty, and the
\* records made of it while the molecules are mapped carry that quantity.
C12_OnlyPlaceholderRedeclared ==
  \A id \in DOMAIN heap :
    heap[id].cls \in InitMetainfo =>
      /\ Redeclared(heap[id].cls) = {"value"}
      /\ "value" \in DOMAIN heap[id].q

\* C12 witness: records of two redeclaring types exist, a total energy whose
\* redeclared value has been set from the input and a gap energy.
C12_Witness ==
  /\ \E id \in DOMAIN heap :
       /\ heap[id].cls = "TotalEnergy"
       /\ Redeclared("TotalEnergy") = {"value"}
       /\ heap[id].q["value"] # None
  /\ \E id \in DOMAIN heap : heap[id].cls = "GapEnergy"

(***************************************************************************)
(* Count fields and the arrays shaped by them.                             *)
(***************************************************************************)
\* the place of a name in a class body
Place(cls, field) == CHOOSE n \in 1..Len(ClassBody(cls)) : ClassBody(cls)[n] = field

\* the fields of a class whose shape names a count field
ShapedFields(cls) == {f \in Quantities(cls) : ShapeField(cls, f) # ""}

\* C13: in every record with shaped arrays, the count field stands before
\* each array it shapes in the class body, and the reader has set the count
\* field by the time any such array is set, also in a section left half
\* populated by an exception.
C13_CountBeforeArrays ==
  \A id \in DOMAIN heap :
    \A f \in ShapedFields(heap[id].cls) :
      /\ Place(heap[id].cls, ShapeField(heap[id].cls, f)) < Place(heap[id].cls, f)
      /\ heap[id].q[f] # None => heap[id].q[ShapeField(heap[id].cls, f)] # None

\* C13 witness: an electronic levels section was left half populated by an
\* exception, its count and the first array shaped by it set and the next
\* array not.
C13_Witness ==
  /\ pc = "raised"
  /\ \E id \in DOMAIN heap :
       /\ heap[id].cls = "ElectronicLevels"
       /\ heap[id].q["n_levels"] = Some(1)
       /\ heap[id].q["excited_state"] = Some(<<1>>)
       /\ heap[id].q["value"] = None

(***************************************************************************)
(* Field errors.                                                           *)
(***************************************************************************)
\* C14: a field that fails to map (every field of the reader is optional:
\* it is read with .get and may be None) costs the record that field only:
\* the record of the molecule is still produced and written to its file.
C14_RecordDespiteFieldError ==
  error.kind # "" => IString(i) \in DOMAIN files

(***************************************************************************)
(* Second part: the Jupyter analysis entry of nomad_analysis/schema.py.    *)
(*                                                                         *)
(* A text is a sequence of pieces (single characters in names, longer      *)
(* pieces in cell sources) whose concatenation is the string; the empty    *)
(* string is the empty sequence.  The raw files of the upload are a        *)
(* function from file names to notebooks, a notebook being the sequence of *)
(* its cells.                                                              *)
(***************************************************************************)
\* str.replace(old, new) for single characters
Replace(text, old, new) == [k \in 1..Len(text) |-> IF text[k] = old THEN new ELSE text[k]]

\* str.lower() over the letters the model uses
LowerChar(c) ==
  CASE c = "G" -> "g" [] c = "X" -> "x" [] c = "R" -> "r" [] c = "D" -> "d"
    [] c = "A" -> "a" [] OTHER -> c

Lower(text) == [k \in 1..Len(text) |-> LowerChar(text[k])]

Generic == <<"G", "e", "n", "e", "r", "i", "c">>

XRD == <<"X", "R", "D">>

\* the values analysis_type can hold: unset, the two documented types, and
\* another string
AnalysisTypes == {None, Some(Generic), Some(XRD), Some(<<"x", "r", "d">>)}

\* the values the entry's name can hold
Names == {None, Some(<<"a">>), Some(<<"a", " ", "b">>)}

FileNameAsIs(name, analysis_type) ==
  name \o <<"_">> \o Lower(analysis_type) \o <<"_notebook.ipynb">>

\* self.name.replace(' ', '_') + f'_{self.analysis_type.lower()}_notebook.ipynb'
FileName(name, analysis_type) ==
  Replace(name, " ", "_") \o <<"_">> \o Lower(analysis_type) \o <<"_notebook.ipynb">>

\* analysis_source.py: the functions of the module with their category, in
\* the order of inspect.getmembers (by name)
AnalysisFunctions ==
  <<[name |-> "get_input_data", category |-> Generic],
    [name |-> "xrd_conduct_analysis", category |-> XRD],
    [name |-> "xrd_find_peaks", category |-> XRD],
    [name |-> "xrd_plot_intensity_two_theta", category |-> XRD],
    [name |-> "xrd_plot_logy_intensity_two_theta", category |-> XRD],
    [name |-> "xrd_save_analysis_results", category |-> XRD],
    [name |-> "xrd_voila_analysis", category |-> XRD]>>

\* utils.get_function_source(category_name=...): the sources of the
\* functions of the category, the decorator line left out
GetFunctionSource(category_name) ==
  LET members == SelectSeq(AnalysisFunctions, LAMBDA f : f.category = category_name)
  IN [k \in 1..Len(members) |-> "def " \o members[k].name]

\* utils.list_to_string: every item followed by a newline
RECURSIVE ListToString(_)
ListToString(list_instance) ==
  IF list_instance = <<>> THEN <<>>
  ELSE <<Head(list_instance), "\n">> \o ListToString(Tail(list_instance))

\* nbf.v4.new_code_cell(source=...)
NewCodeCell(source) == [cell_type |-> "code", source |-> source]

Marker == "# Pre-defined block"

SourceIsMarker(cell) == cell.source = <<Marker>>

\* cell.source.startswith('# Pre-defined block')
StartsWithMarker(cell) == cell.source # <<>> /\ Head(cell.source) = Marker

\* lines 238-248: the cell that says where the notebook comes from
IntroCell ==
  NewCodeCell(<<Marker, "\n\n# This notebook has been generated by ...">>)

\* lines 250-266: the connection to the entry, the Generic functions and the
\* call of get_input_data
GenericCell ==
  NewCodeCell(<<Marker, "\n\nimport requests\n...analysis_entry_id = ...\n\n">>
              \o ListToString(GetFunctionSource(Generic))
              \o <<"input_data = get_input_data(token_header, base_url, analysis_entry_id)\n">>)

\* lines 268-277: the functions of the analysis type
TypeCell(analysis_type) ==
  NewCodeCell(<<Marker, "\n\n# Analysis functions specific to \"">> \o analysis_type
              \o <<"\".\n\n">> \o ListToString(GetFunctionSource(analysis_type)))

\* lines 279-281
VoilaCell == NewCodeCell(<<Marker, "\n\nxrd_voila_analysis(input_data)\n">>)

GenericCellsForGeneric(analysis_type) ==
  IF analysis_type = None \/ analysis_type = Some(Generic)
  THEN <<IntroCell, GenericCell>>
  ELSE <<IntroCell, TypeCell(analysis_type[1])>>
       \o (IF analysis_type = Some(XRD) THEN <<VoilaCell>> ELSE <<>>)

VoilaForEveryType(analysis_type) ==
  <<IntroCell, GenericCell>>
  \o (IF analysis_type # None /\ analysis_type # Some(Generic)
      THEN <<TypeCell(analysis_type[1]), VoilaCell>> ELSE <<>>)

\* write_predefined_cells, for the analysis type of the section
WritePredefinedCells(analysis_type) ==
  <<IntroCell, GenericCell>>
  \o (IF analysis_type # None /\ analysis_type # Some(Generic)
      THEN <<TypeCell(analysis_type[1])>> ELSE <<>>)
  \o (IF analysis_type = Some(XRD) THEN <<VoilaCell>> ELSE <<>>)

\* The sections that can be the data of the entry.
EntryClasses == {"ELNJupyterAnalysis", "ELNGenericJupyterAnalysis", "ELNXRDJupyterAnalysis"}

\* Bound of the second part: the edits the user makes to the notebook (to
\* its cells, or detaching it from the entry).
MaxEdits == 1

\* what the user types into a cell: code of their own, or a cell that
\* repeats the header of the pre-defined ones
UserSources == {<<"x = 1">>, <<Marker, "\n# my own block">>}

NoFiles == [f \in {} |-> <<>>]

\* the entry as it is parsed from its archive file: reset_notebook has its
\* default, no notebook is named, no raw file of it exists
NotebookInit ==
  /\ entry \in [cls : EntryClasses, name : Names, analysis_type : AnalysisTypes,
                reset_notebook : {TRUE}, notebook : {None}]
  /\ upload = NoFiles
  /\ last = [op |-> "parsed", wrote |-> "none", edits |-> 0]
  /\ data = <<>> /\ i = 0 /\ pc = "loop" /\ heap = <<>> /\ envs = <<>>
  /\ files = <<>> /\ error = NoError

\* archive.m_context.raw_path_exists(path); no file is found under None
RawPathExists(up, path) == path # None /\ path[1] \in DOMAIN up

\* the raw files with one of them written
WithFile(up, path, cells) ==
  [f \in DOMAIN up \cup {path} |-> IF f = path THEN cells ELSE up[f]]

\* the raw files with one of them gone
WithoutFile(up, path) == [f \in DOMAIN up \ {path} |-> up[f]]

\* os.rename(old, new): the file takes the new name, replacing a file that
\* has it
Rename(up, old, new) == WithFile(WithoutFile(up, old), new, up[old])

KeepAnalysisType(e) == e

\* ELNGenericJupyterAnalysis.normalize / ELNXRDJupyterAnalysis.normalize:
\* self.analysis_type = ... before the normalize of the base section
FixAnalysisType(e) ==
  CASE e.cls = "ELNGenericJupyterAnalysis" -> [e EXCEPT !.analysis_type = Some(Generic)]
    [] e.cls = "ELNXRDJupyterAnalysis" -> [e EXCEPT !.analysis_type = Some(XRD)]
    [] OTHER -> e

\* set_jupyter_notebook_name, for a section with a name and an analysis type
SetJupyterNotebookName(e, up) ==
  LET file_name == FileName(e.name[1], e.analysis_type[1])
  IN IF ~RawPathExists(up, e.notebook)
     THEN [entry |-> [e EXCEPT !.notebook = Some(file_name)], upload |-> up]
     ELSE IF e.notebook # Some(file_name)
     THEN [entry |-> [e EXCEPT !.notebook = Some(file_name)],
           upload |-> Rename(up, e.notebook[1], file_name)]
     ELSE [entry |-> e, upload |-> up]

\* generate_jupyter_notebook
GenerateJupyterNotebook(e, up) ==
  WithFile(up, e.notebook[1],
           WritePredefinedCells(e.analysis_type)
           \o <<NewCodeCell(<<>>), NewCodeCell(<<>>), NewCodeCell(<<>>)>>)

KeepAllCells(cell) == TRUE

\* for cell in nb.cells: if cell.source.startswith('# Pre-defined block'):
\* continue; cells.append(cell)
KeepCell(cell) == ~StartsWithMarker(cell)

\* overwrite_jupyter_notebook
OverwriteJupyterNotebook(e, up) ==
  WithFile(up, e.notebook[1],
           WritePredefinedCells(e.analysis_type) \o SelectSeq(up[e.notebook[1]], KeepCell))

\* write_jupyter_notebook: which of the two is called
Generates(e, up) == e.notebook = None \/ e.notebook[1] = <<>> \/ ~RawPathExists(up, e.notebook)

WriteJupyterNotebook(e, up) ==
  IF Generates(e, up) THEN GenerateJupyterNotebook(e, up) ELSE OverwriteJupyterNotebook(e, up)

ResetAlways(flag) == TRUE

\* if self.reset_notebook:
ResetAsked(flag) == flag

\* normalize of the entry's section: the analysis type of the derived
\* sections, the name of the notebook, the notebook itself when a reset is
\* asked for.  self.name.replace and self.analysis_type.lower raise
\* AttributeError on None.  (write_results only reads; the normalize of the
\* base sections does not touch these quantities.)
NormalizeEntry ==
  /\ LET typed == FixAnalysisType(entry)
     IN IF typed.name = None \/ typed.analysis_type = None
        THEN /\ entry' = typed
             /\ upload' = upload
             /\ last' = [last EXCEPT !.op = "raised", !.wrote = "none"]
        ELSE LET named == SetJupyterNotebookName(typed, upload)
             IN IF ResetAsked(named.entry.reset_notebook)
                THEN /\ entry' = [named.entry EXCEPT !.reset_notebook = FALSE]
                     /\ upload' = WriteJupyterNotebook(named.entry, named.upload)
                     /\ last' = [last EXCEPT
                                   !.op = "normalized",
                                   !.wrote = IF Generates(named.entry, named.upload)
                                             THEN "generate" ELSE "overwrite"]
                ELSE /\ entry' = named.entry
                     /\ upload' = named.upload
                     /\ last' = [last EXCEPT !.op = "normalized", !.wrote = "none"]
  /\ UNCHANGED vars

\* The user edits the entry in the ELN: the analysis type,
EditAnalysisType ==
  /\ \E t \in AnalysisTypes : entry' = [entry EXCEPT !.analysis_type = t]
  /\ last' = [last EXCEPT !.op = "edited", !.wrote = "none"]
  /\ UNCHANGED <<upload, vars>>

\* the name,
EditName ==
  /\ \E n \in Names : entry' = [entry EXCEPT !.name = n]
  /\ last' = [last EXCEPT !.op = "edited", !.wrote = "none"]
  /\ UNCHANGED <<upload, vars>>

\* the reset flag,
EditResetNotebook ==
  /\ \E b \in BOOLEAN : entry' = [entry EXCEPT !.reset_notebook = b]
  /\ last' = [last EXCEPT !.op = "edited", !.wrote = "none"]
  /\ UNCHANGED <<upload, vars>>

\* the notebook quantity is cleared (counted with the edits of the notebook).
EditNotebook ==
  /\ last.edits < MaxEdits
  /\ entry.notebook # None
  /\ entry' = [entry EXCEPT !.notebook = None]
  /\ last' = [last EXCEPT !.op = "edited", !.wrote = "none", !.edits = @ + 1]
  /\ UNCHANGED <<upload, vars>>

\* The user works in the notebook: a cell is added in front or at the end,
AddCell ==
  /\ last.edits < MaxEdits
  /\ RawPathExists(upload, entry.notebook)
  /\ \E source \in UserSources, front \in BOOLEAN :
       upload' = WithFile(upload, entry.notebook[1],
                          IF front
                          THEN <<NewCodeCell(source)>> \o upload[entry.notebook[1]]
                          ELSE Append(upload[entry.notebook[1]], NewCodeCell(source)))
  /\ last' = [last EXCEPT !.op = "edited", !.wrote = "none", !.edits = @ + 1]
  /\ UNCHANGED <<entry, vars>>

\* the source of the first cell is replaced,
EditCell ==
  /\ last.edits < MaxEdits
  /\ RawPathExists(upload, entry.notebook)
  /\ upload[entry.notebook[1]] # <<>>
  /\ \E source \in UserSources :
       upload' = WithFile(upload, entry.notebook[1],
                          [upload[entry.notebook[1]] EXCEPT ![1].source = source])
  /\ last' = [last EXCEPT !.op = "edited", !.wrote = "none", !.edits = @ + 1]
  /\ UNCHANGED <<entry, vars>>

\* or the notebook file is deleted from the upload.
DeleteFile ==
  /\ \E f \in DOMAIN upload : upload' = WithoutFile(upload, f)
  /\ last' = [last EXCEPT !.op = "edited", !.wrote = "none"]
  /\ UNCHANGED <<entry, vars>>

NotebookNext ==
  \/ NormalizeEntry
  \/ EditAnalysisType
  \/ EditName
  \/ EditResetNotebook
  \/ EditNotebook
  \/ AddCell
  \/ EditCell
  \/ DeleteFile

NotebookSpec == NotebookInit /\ [][NotebookNext]_<<vars, nvars>>

(***************************************************************************)
(* The analysis type of the derived sections.                              *)
(***************************************************************************)
\* the notebook of the entry, when its file exists
Notebook == upload[entry.notebook[1]]

\* C15: whenever a normalize of the entry has returned, the analysis type of
\* an ELNGenericJupyterAnalysis is 'Generic' and that of an
\* ELNXRDJupyterAnalysis is 'XRD', whatever the user had set before.
C15_FixedAnalysisType ==
  last.op = "normalized" =>
    /\ entry.cls = "ELNGenericJupyterAnalysis" => entry.analysis_type = Some(Generic)
    /\ entry.cls = "ELNXRDJupyterAnalysis" => entry.analysis_type = Some(XRD)

\* C15 witness: an XRD entry has been normalized when its notebook was
\* there already, and the notebook holds the XRD cells.
C15_Witness ==
  /\ last.op = "normalized" /\ last.wrote = "overwrite"
  /\ entry.cls = "ELNXRDJupyterAnalysis"
  /\ entry.analysis_type = Some(XRD)
  /\ VoilaCell \in Range(Notebook)

(***************************************************************************)
(* Resetting the notebook.                                                 *)
(***************************************************************************)
\* a step is a normalize that overwrote the notebook
Overwrote == last'.op = "normalized" /\ last'.wrote = "overwrite"

\* the cells overwrite_jupyter_notebook reads in such a step: those of the
\* entry's notebook (renamed first when its name is out of date), or of the
\* file that has the notebook's name when the entry names no file that exists
CellsBefore ==
  IF RawPathExists(upload, entry.notebook) THEN upload[entry.notebook[1]]
  ELSE upload[entry'.notebook[1]]

\* the cells of the entry's notebook after the step
CellsAfter == upload'[entry'.notebook[1]]

\* the cells write_predefined_cells can produce
SchemaCells ==
  {IntroCell, GenericCell, VoilaCell} \cup {TypeCell(t[1]) : t \in AnalysisTypes \ {None}}

UserDefined(cell) == cell \notin SchemaCells

Unmarked(cell) == ~StartsWithMarker(cell)

Holds(cell, piece) == \E k \in 1..Len(cell.source) : cell.source[k] = piece

\* the cell holds the source of every function of the category
HoldsFunctions(cell, category_name) ==
  \A k \in 1..Len(AnalysisFunctions) :
    AnalysisFunctions[k].category = category_name =>
      Holds(cell, "def " \o AnalysisFunctions[k].name)

CallsGetInputData(cell) ==
  Holds(cell, "input_data = get_input_data(token_header, base_url, analysis_entry_id)\n")

\* C17: for every value of analysis_type, None and strings that name no
\* category included, the pre-defined cells contain a cell with the source of
\* all Generic functions and the call of get_input_data; and so does the
\* notebook whenever a normalize has just generated or overwritten it.
C17_GenericCellsIncluded ==
  /\ \A t \in AnalysisTypes :
       \E k \in 1..Len(WritePredefinedCells(t)) :
         /\ HoldsFunctions(WritePredefinedCells(t)[k], Generic)
         /\ CallsGetInputData(WritePredefinedCells(t)[k])
  /\ (last.op = "normalized" /\ last.wrote # "none") =>
       \E k \in 1..Len(Notebook) :
         /\ StartsWithMarker(Notebook[k])
         /\ HoldsFunctions(Notebook[k], Generic)
         /\ CallsGetInputData(Notebook[k])

\* C17 witness: a notebook has just been written for an analysis type that
\* names no category of functions, and its second cell is the Generic one.
C17_Witness ==
  /\ last.op = "normalized" /\ last.wrote = "generate"
  /\ entry.analysis_type = Some(<<"x", "r", "d">>)
  /\ HoldsFunctions(Notebook[2], Generic) /\ CallsGetInputData(Notebook[2])
  /\ ~HoldsFunctions(Notebook[3], XRD)

(***************************************************************************)
(* Generating the notebook, its name, and the reset flag.                  *)
(***************************************************************************)
\* a step is a call of normalize, returned or raised
Normalized == last'.op \in {"normalized", "raised"}

\* a step is a call of normalize that returned
Returned == last'.op = "normalized"

\* the notebook normalize generates for the analysis type
Generated(analysis_type) ==
  WritePredefinedCells(analysis_type)
  \o <<NewCodeCell(<<>>), NewCodeCell(<<>>), NewCodeCell(<<>>)>>

\* C18: a normalize that starts with reset_notebook true and finds no raw
\* file under the name of the notebook leaves a raw file named self.notebook
\* that holds the pre-defined cells of the analysis type and three empty
\* code cells; one that finds the file overwrites it.
C18_GeneratedWhenMissing ==
  [][(Normalized /\ entry.reset_notebook) =>
       /\ RawPathExists(upload', entry'.notebook)
       /\ IF RawPathExists(upload, entry.notebook)
             \/ RawPathExists(upload, entry'.notebook)
          THEN CellsAfter = WritePredefinedCells(entry'.analysis_type)
                            \o SelectSeq(CellsBefore, Unmarked)
          ELSE CellsAfter = Generated(entry'.analysis_type)]_nvars

\* the name the notebook is to have, character by character: the name of
\* the entry with '_' for ' ', then '_', the analysis type in lower case,
\* and '_notebook.ipynb'
IsNotebookName(file, name, analysis_type) ==
  /\ Len(file) = Len(name) + Len(analysis_type) + 2
  /\ \A k \in 1..Len(name) : file[k] = IF name[k] = " " THEN "_" ELSE name[k]
  /\ file[Len(name) + 1] = "_"
  /\ \A k \in 1..Len(analysis_type) :
       file[Len(name) + 1 + k] = LowerChar(analysis_type[k])
  /\ file[Len(file)] = "_notebook.ipynb"

\* C19: whenever a normalize has returned, self.notebook is the name of the
\* entry with spaces replaced by '_', followed by '_', the lower-cased
\* analysis type and '_notebook.ipynb', whatever it was before and whether
\* or not the file it named existed.
C19_NotebookNameFollowsEntry ==
  last.op = "normalized" =>
    /\ entry.notebook # None
    /\ IsNotebookName(entry.notebook[1], entry.name[1], entry.analysis_type[1])

\* C19 witness: the entry has a name with a space and the type XRD, and its
\* notebook carries the new name but was written for another type, that is
\* under another name: it has been renamed by a normalize without reset.
C19_Witness ==
  /\ last.op = "normalized" /\ last.wrote = "none"
  /\ entry.name = Some(<<"a", " ", "b">>) /\ entry.analysis_type = Some(XRD)
  /\ entry.notebook = Some(<<"a", "_", "b", "_", "x", "r", "d", "_notebook.ipynb">>)
  /\ RawPathExists(upload, entry.notebook)
  /\ Notebook = Generated(Some(Generic))

\* C20: every normalize that returns leaves reset_notebook false, and one
\* that starts with reset_notebook false writes no cells: the notebook of the
\* entry keeps its cells (under its new name when it is renamed) and every
\* other file is as it was.
C20_ResetIsOneShot ==
  [][Returned =>
       /\ entry'.reset_notebook = FALSE
       /\ ~entry.reset_notebook =>
            /\ last'.wrote = "none"
            /\ RawPathExists(upload, entry.notebook) =>
                 upload'[entry'.notebook[1]] = upload[entry.notebook[1]]
            /\ \A f \in DOMAIN upload' :
                 Some(f) # entry'.notebook => f \in DOMAIN upload /\ upload'[f] = upload[f]
            /\ ~RawPathExists(upload, entry.notebook) => upload' = upload]_nvars

\* C20 witness: a normalize has returned without a reset, and the notebook
\* still holds a cell of the user that starts with the header, which a reset
\* would have dropped.
C20_Witness ==
  /\ last.op = "normalized" /\ last.wrote = "none"
  /\ ~entry.reset_notebook
  /\ RawPathExists(upload, entry.notebook)
  /\ NewCodeCell(<<Marker, "\n# my own block">>) \in Range(Notebook)

(***************************************************************************)
(* The composition of the pre-defined cells.                               *)
(***************************************************************************)
\* the analysis type asks for a cell of functions of its own
HasTypeCell(analysis_type) == analysis_type # None /\ analysis_type # Some(Generic)

\* the cells are, in this order: the header cell, the Generic cell, the cell
\* of the functions of the type if the type asks for one, the cell that calls
\* xrd_voila_analysis if the type is 'XRD'; and each starts with the header
WellComposed(cells, analysis_type) ==
  LET typed == IF HasTypeCell(analysis_type) THEN 1 ELSE 0
      voila == IF analysis_type = Some(XRD) THEN 1 ELSE 0
  IN /\ Len(cells) = 2 + typed + voila
     /\ \A k \in 1..Len(cells) : cells[k].source # <<>> /\ cells[k].source[1] = Marker
     /\ Holds(cells[1], "\n\n# This notebook has been generated by ...")
     /\ HoldsFunctions(cells[2], Generic) /\ CallsGetInputData(cells[2])
     /\ typed = 1 =>
          /\ Holds(cells[3], "\n\n# Analysis functions specific to \"")
          /\ SubSeq(cells[3].source, 3, 2 + Len(analysis_type[1])) = analysis_type[1]
          /\ HoldsFunctions(cells[3], analysis_type[1])
          /\ ~CallsGetInputData(cells[3])
     /\ voila = 1 => Holds(cells[4], "\n\nxrd_voila_analysis(input_data)\n")
     /\ \A k \in 1..Len(cells) :
          Holds(cells[k], "\n\nxrd_voila_analysis(input_data)\n") => (voila = 1 /\ k = 4)

\* C21: for every value of analysis_type, write_predefined_cells returns the
\* header cell, the Generic cell, the type cell iff the type is neither None
\* nor 'Generic', the xrd_voila_analysis cell iff the type is 'XRD', in this
\* order and each starting with '# Pre-defined block'; and a notebook that a
\* normalize has just written begins with these cells for the entry's type.
C21_PredefinedCellComposition ==
  /\ \A t \in AnalysisTypes : WellComposed(WritePredefinedCells(t), t)
  /\ (last.op = "normalized" /\ last.wrote # "none") =>
       /\ Len(Notebook) >= Len(WritePredefinedCells(entry.analysis_type))
       /\ WellComposed(SubSeq(Notebook, 1, Len(WritePredefinedCells(entry.analysis_type))),
                       entry.analysis_type)

\* C21 witness: a notebook has just been generated for the type 'XRD': four
\* pre-defined cells, the third with the XRD functions, the fourth calling
\* xrd_voila_analysis, and three empty cells.
C21_Witness ==
  /\ last.op = "normalized" /\ last.wrote = "generate"
  /\ entry.analysis_type = Some(XRD)
  /\ Len(Notebook) = 7
  /\ HoldsFunctions(Notebook[3], XRD)
  /\ Holds(Notebook[4], "\n\nxrd_voila_analysis(input_data)\n")
  /\ Notebook[5].source = <<>>

(***************************************************************************)
(* Repeated resets.                                                        *)
(***************************************************************************)
\* the source of the cell begins with the header
Marked(cell) == cell.source # <<>> /\ cell.source[1] = Marker

\* C22: whatever the entry's notebook holds, overwriting it twice for the
\* same analysis type gives the cells that overwriting it once gives; and a
\* notebook that a normalize has just generated or overwritten holds one copy
\* of the pre-defined cells and no other cell that starts with the header.
C22_ResetsDoNotGrow ==
  /\ RawPathExists(upload, entry.notebook) =>
       LET once == OverwriteJupyterNotebook(entry, upload)
       IN OverwriteJupyterNotebook(entry, once) = once
  /\ (last.op = "normalized" /\ last.wrote # "none") =>
       /\ SelectSeq(Notebook, Marked) = WritePredefinedCells(entry.analysis_type)
       /\ Cardinality({k \in 1..Len(Notebook) : Marked(Notebook[k])})
          = Len(WritePredefinedCells(entry.analysis_type))

\* C22 witness: a notebook to which the user had appended a cell has been
\* overwritten: one copy of the pre-defined cells, the three empty cells and
\* the user's cell.
C22_Witness ==
  /\ last.op = "normalized" /\ last.wrote = "overwrite"
  /\ RawPathExists(upload, entry.notebook)
  /\ Notebook = WritePredefinedCells(entry.analysis_type)
                \o <<NewCodeCell(<<>>), NewCodeCell(<<>>), NewCodeCell(<<>>),
                     NewCodeCell(<<"x = 1">>)>>

(***************************************************************************)
(* Renaming the notebook.                                                  *)
(***************************************************************************)
\* a step is a normalize without reset in which set_jupyter_notebook_name
\* found the entry's notebook under a name that is out of date and moved it
Moved ==
  /\ Returned /\ ~entry.reset_notebook
  /\ RawPathExists(upload, entry.notebook)
  /\ entry'.notebook # entry.notebook

\* C23: when set_jupyter_notebook_name moves the notebook, the new name
\* holds the old cells, no file is left under the old name, and every other
\* raw file of the upload is still there with the cells it had.
C23_RenameKeepsContent ==
  [][Moved =>
       /\ RawPathExists(upload', entry'.notebook)
       /\ upload'[entry'.notebook[1]] = upload[entry.notebook[1]]
       /\ entry.notebook[1] \notin DOMAIN upload'
       /\ \A f \in DOMAIN upload \ {entry.notebook[1]} :
            f \in DOMAIN upload' /\ upload'[f] = upload[f]]_nvars

\* The part of the above that the move does keep: the notebook's cells arrive
\* under the expected name, the old name is gone, and the files under names
\* other than these two are untouched.
RenameMovesCells ==
  [][Moved =>
       /\ entry'.notebook = Some(FileName(entry'.name[1], entry'.analysis_type[1]))
       /\ RawPathExists(upload', entry'.notebook)
       /\ upload'[entry'.notebook[1]] = upload[entry.notebook[1]]
       /\ entry.notebook[1] \notin DOMAIN upload'
       /\ \A f \in DOMAIN upload \ {entry.notebook[1], entry'.notebook[1]} :
            f \in DOMAIN upload' /\ upload'[f] = upload[f]]_nvars

(***************************************************************************)
(* The system reference of the outputs.                                    *)
(***************************************************************************)
\* the heap with a second ModelSystem created, and the simulation holding
\* the first n of the two model systems
WithModelSystems(h, n) ==
  LET second == Len(h) + 1
      h0 == Append(h, [New("ModelSystem") EXCEPT !.parent = env.simulation])
  IN [h0 EXCEPT ![env.simulation].subs["model_system"] =
                   SubSeq(<<env.model_system, second>>, 1, n)]

\* the outputs of the heap after Outputs.normalize
OutputsNormalized(h) == NormalizeOutputs(h, env.outputs)[env.outputs]

\* C24: Outputs.normalize leaves a reference that is set as it is; it sets a
\* missing one to the parent's model system when the parent holds exactly
\* one, and leaves it None when the outputs have no parent or the parent
\* holds none or two.  The cases are taken at the two ends of the loop's
\* normalize step: before it the outputs have no parent and no reference,
\* after it they have both.
C24_ReferenceOnlyWhenUnambiguous ==
  /\ pc = "normalize" =>
       /\ heap[env.outputs].parent = 0
       /\ heap[env.outputs].q["model_system_ref"] = None
       /\ OutputsNormalized(heap).q["model_system_ref"] = None
       /\ \A n \in 0..2 :
            LET h == AddSubSection(WithModelSystems(heap, n), env.simulation,
                                   "outputs", env.outputs, TRUE)
            IN /\ OutputsNormalized(h).q["model_system_ref"]
                    = IF n = 1 THEN Some(env.model_system) ELSE None
               /\ \A id \in 1..Len(h) : id # env.outputs =>
                    NormalizeOutputs(h, env.outputs)[id] = h[id]
  /\ pc = "write" =>
       /\ heap[env.outputs].parent = env.simulation
       /\ heap[env.simulation].subs["model_system"] = <<env.model_system>>
       /\ heap[env.outputs].q["model_system_ref"] = Some(env.model_system)
       /\ \A n \in 0..2 :
            NormalizeOutputs(WithModelSystems(heap, n), env.outputs)
              = WithModelSystems(heap, n)

\* the second molecule's outputs were normalized: they refer to the one
\* model system of their own simulation
C24_Witness ==
  /\ pc = "write" /\ i = 1
  /\ heap[env.outputs].parent = env.simulation
  /\ heap[env.simulation].subs["model_system"] = <<env.model_system>>
  /\ heap[env.outputs].q["model_system_ref"] = Some(env.model_system)
  /\ env.model_system # envs[1].model_system

====
